---- MODULE Spec2Model ----
(***************************************************************************)
(* Mind vs Machine RNG: the session record, the analytics engine, the      *)
(* session store and the range validation gate, with the caller steps of   *)
(* rng_mind_vs_machine.py that append to and clear the session sequence.   *)
(*                                                                         *)
(* Conventions.  Python's None is the empty tuple and a present optional   *)
(* value v is <<v>>.  A float is the exact rational <<num, den>> with      *)
(* den > 0 (binary rounding is not modelled).  A value stored in a dict    *)
(* that goes to JSON carries its JSON type as a tag.                       *)
(***************************************************************************)
EXTENDS Integers, Sequences, FiniteSets, TLC

VARIABLES
    sessions,        \* st.session_state.sessions / Analytics.sessions
    file,            \* content of the durable file data/sessions.json
    confirm_delete,  \* st.session_state.confirm_delete
    save_ret,        \* what the last save_sessions call returned (None before any)
    loaded,          \* outcome of the last load_sessions call: [raised, value]
    history,         \* names of the last two store operations, oldest first
    validation,      \* arguments and result of the last validate_range call
    cold,            \* arguments and result of the last cold_numbers call
    dist,            \* argument and result of the last get_distribution_data call
    show_prediction, \* st.session_state.show_prediction
    last_prediction, \* st.session_state.last_prediction
    last_number,     \* st.session_state.last_number
    generation,      \* the rng_engine.generate call of the last script run, if any
    dirs,            \* the directories that exist, each a tuple of path components
    exported,        \* path, result and file of the last export_to_csv call
    mem,             \* two processes: the session sequence of each
    pc,              \* two processes: "idle", or "writing" between open and close
    overlapped,      \* two processes: whether the save in progress met another save
    last_saver,      \* two processes: who closed the file last (0: nobody yet)
    file_len         \* two processes: records' worth of bytes the file holds

uiVars == <<show_prediction, last_prediction, last_number, generation>>
csvVars == <<dirs, exported>>
procVars == <<mem, pc, overlapped, last_saver, file_len>>
added == <<uiVars, csvVars, procVars>>

vars == <<sessions, file, confirm_delete, save_ret, loaded, history,
          validation, cold, dist, added>>

-----------------------------------------------------------------------------
(* Bounds of the model *)

MaxSessions == 3
MaxStoreSessions == 2
MaxColdSessions == 3
MaxDistSessions == 3
MaxBins == 4
MaxTopN == 3
MaxDistValue == 5
MaxColdValue == 2
ColdBase == 6
RangeSlack == 3
MaxAppSessions == 2
MaxProcSessions == 2

(* Program constants *)

DEFAULT_MIN_VALUE == 0
DEFAULT_MAX_VALUE == 99
MAX_RANGE_SPAN == 10000
MIN_RANGE_SPAN == 1
PERCENT == 100

-----------------------------------------------------------------------------
(* Values *)

None == <<>>
Some(v) == <<v>>

Abs(n) == IF n < 0 THEN 0 - n ELSE n
Max2(a, b) == IF a >= b THEN a ELSE b

\* exact rationals standing for Python floats
RatDiv(a, b) == <<a, b>>
RatMulInt(r, k) == <<r[1] * k, r[2]>>
RatEq(r, q) == r[1] * q[2] = q[1] * r[2]
RatLe(r, q) == r[1] * q[2] <= q[1] * r[2]

RECURSIVE SumSeq(_)
SumSeq(s) == IF s = <<>> THEN 0 ELSE Head(s) + SumSeq(Tail(s))

RECURSIVE MapDistance(_, _)

-----------------------------------------------------------------------------
(* GameSession *)

\* __init__: an absent or empty timestamp ("" here) becomes datetime.now()
GameSession(prediction, generated, timestamp, game_mode, min_val, max_val, algorithm, now) ==
    [prediction |-> prediction,
     generated  |-> generated,
     timestamp  |-> IF timestamp = "" THEN now ELSE timestamp,
     game_mode  |-> game_mode,
     min_val    |-> min_val,
     max_val    |-> max_val,
     algorithm  |-> algorithm]

is_hit(s) ==
    IF s.prediction = None THEN FALSE ELSE s.prediction[1] = s.generated

distance(s) ==
    IF s.prediction = None THEN None ELSE Some(Abs(s.prediction[1] - s.generated))

-----------------------------------------------------------------------------
(* Analytics *)

total_attempts(S) == Len(S)

\* counting with "if s.prediction" instead of "is not None"
total_predictions_truthy(S) ==
    Len(SelectSeq(S, LAMBDA s : s.prediction # None /\ s.prediction[1] # 0))

total_predictions(S) == Len(SelectSeq(S, LAMBDA s : s.prediction # None))

total_hits(S) == Len(SelectSeq(S, is_hit))

hit_rate_by_attempts(S) ==
    IF total_predictions(S) = 0
    THEN RatDiv(0, 1)
    ELSE RatMulInt(RatDiv(total_hits(S), total_attempts(S)), PERCENT)

hit_rate(S) ==
    LET predictions == total_predictions(S) IN
    IF predictions = 0
    THEN RatDiv(0, 1)
    ELSE RatMulInt(RatDiv(total_hits(S), predictions), PERCENT)

\* [s.distance() for s in sessions if s.distance() is not None]
MapDistance(S, i) ==
    IF i > Len(S) THEN <<>>
    ELSE IF distance(S[i]) = None THEN MapDistance(S, i + 1)
    ELSE <<distance(S[i])[1]>> \o MapDistance(S, i + 1)

\* the mean taken over all records instead of over the defined distances
average_distance_by_attempts(S) ==
    LET distances == MapDistance(S, 1) IN
    IF distances = <<>> THEN None
    ELSE RatDiv(SumSeq(distances), Len(S))

\* 0.0 returned where there is no distance to average
average_distance_or_zero(S) ==
    LET distances == MapDistance(S, 1) IN
    IF distances = <<>> THEN RatDiv(0, 1)
    ELSE RatDiv(SumSeq(distances), Len(distances))

average_distance(S) ==
    LET distances == MapDistance(S, 1) IN
    IF distances = <<>> THEN None
    ELSE RatDiv(SumSeq(distances), Len(distances))

RECURSIVE current_streak(_)
current_streak(S) ==
    IF S = <<>> THEN 0
    ELSE IF is_hit(S[Len(S)]) THEN 1 + current_streak(SubSeq(S, 1, Len(S) - 1))
    ELSE 0

\* the scan of longest_streak: <<max_streak, current>> after the first i records
RECURSIVE StreakScan(_, _)
StreakScan(S, i) ==
    IF i = 0 THEN <<0, 0>>
    ELSE LET before == StreakScan(S, i - 1) IN
         IF is_hit(S[i])
         THEN <<Max2(before[1], before[2] + 1), before[2] + 1>>
         ELSE <<before[1], 0>>

\* the same scan, recording the maximum only when a miss ends a run
RECURSIVE StreakScanOnMiss(_, _)
StreakScanOnMiss(S, i) ==
    IF i = 0 THEN <<0, 0>>
    ELSE LET before == StreakScanOnMiss(S, i - 1) IN
         IF is_hit(S[i])
         THEN <<before[1], before[2] + 1>>
         ELSE <<Max2(before[1], before[2]), 0>>

longest_streak_on_miss(S) == StreakScanOnMiss(S, Len(S))[1]

longest_streak(S) == StreakScan(S, Len(S))[1]

\* [s.generated for s in sessions]
RECURSIVE GeneratedNumbers(_)
GeneratedNumbers(S) ==
    IF S = <<>> THEN <<>> ELSE <<Head(S).generated>> \o GeneratedNumbers(Tail(S))

Range(s) == {s[i] : i \in DOMAIN s}
MinOf(X) == CHOOSE x \in X : \A y \in X : x <= y
MaxOf(X) == CHOOSE x \in X : \A y \in X : x >= y
Ceil(a, b) == (a + b - 1) \div b

\* number_frequency: the dict as <<number, count>> pairs in insertion order,
\* which is the order of first occurrence
RECURSIVE number_frequency(_)
number_frequency(S) ==
    IF S = <<>> THEN <<>>
    ELSE LET before == number_frequency(SubSeq(S, 1, Len(S) - 1))
             n == S[Len(S)].generated
         IN  IF \E i \in DOMAIN before : before[i][1] = n
             THEN [i \in DOMAIN before |->
                      IF before[i][1] = n THEN <<n, before[i][2] + 1>> ELSE before[i]]
             ELSE Append(before, <<n, 1>>)

\* sorted(items, key=lambda x: x[1]): stable, ascending by count
RECURSIVE SortedByCount(_)
SortedByCount(items) ==
    IF items = <<>> THEN <<>>
    ELSE LET least == MinOf({items[i][2] : i \in DOMAIN items})
             first == MinOf({i \in DOMAIN items : items[i][2] = least})
         IN  <<items[first]>> \o
             SortedByCount(SubSeq(items, 1, first - 1) \o
                           SubSeq(items, first + 1, Len(items)))

\* sorted(list(X)) of a set of integers
RECURSIVE Sorted(_)
Sorted(X) == IF X = {} THEN <<>> ELSE <<MinOf(X)>> \o Sorted(X \ {MinOf(X)})

\* s[:k] for k >= 0
Take(s, k) == SubSeq(s, 1, IF k < Len(s) THEN k ELSE Len(s))

\* the orders in which iterating the set X may yield its elements
Orders(X) ==
    {o \in [1 .. Cardinality(X) -> X] : \A i, j \in 1 .. Cardinality(X) : o[i] = o[j] => i = j}

never_generated(S, min_val, max_val) ==
    (min_val .. max_val) \ {number_frequency(S)[i][1] : i \in DOMAIN number_frequency(S)}

\* cold_numbers; listed is list(never_generated), the set in iteration order
cold_numbers(S, top_n, min_val, max_val, listed) ==
    LET freq == number_frequency(S)
        never == never_generated(S, min_val, max_val)
    IN  IF Cardinality(never) >= top_n
        THEN Take(Sorted(never), top_n)
        ELSE LET sorted_freq == SortedByCount(freq)
                 cold_nums == [i \in DOMAIN sorted_freq |-> sorted_freq[i][1]]
             IN  listed \o Take(cold_nums, top_n - Cardinality(never))

BinSizeCeil(min_num, max_num, bins) == Max2(1, Ceil(max_num - min_num + 1, bins))

\* bin_size = max(1, (max_num - min_num + 1) // bins)
BinSize(min_num, max_num, bins) == Max2(1, (max_num - min_num + 1) \div bins)

BinEndNoRemainder(i, bins, bin_start, bin_size, max_num) == bin_start + bin_size - 1

\* bin_end of bucket i (0-based): the last bucket ends at max_num
BinEnd(i, bins, bin_start, bin_size, max_num) ==
    IF i = bins - 1 THEN max_num ELSE bin_start + bin_size - 1

\* get_distribution_data; a label "a-b" is the pair <<a, b>>
get_distribution_data(S, bins) ==
    LET generated_numbers == GeneratedNumbers(S) IN
    IF generated_numbers = <<>> THEN [bins |-> <<>>, counts |-> <<>>]
    ELSE LET min_num == MinOf(Range(generated_numbers))
             max_num == MaxOf(Range(generated_numbers))
             bin_size == BinSize(min_num, max_num, bins)
             bin_start(i) == min_num + i * bin_size
             bin_end(i) == BinEnd(i, bins, bin_start(i), bin_size, max_num)
         IN  [bins   |-> [k \in 1 .. bins |-> <<bin_start(k - 1), bin_end(k - 1)>>],
              counts |-> [k \in 1 .. bins |->
                             Cardinality({j \in DOMAIN generated_numbers :
                                 /\ bin_start(k - 1) <= generated_numbers[j]
                                 /\ generated_numbers[j] <= bin_end(k - 1)})]]

-----------------------------------------------------------------------------
(* validate_range (rng_engine.py) *)

validate_range(min_val, max_val) ==
    IF min_val > max_val
    THEN [is_valid |-> FALSE, error |-> Some("Minimum cannot be greater than maximum")]
    ELSE IF max_val - min_val < MIN_RANGE_SPAN
    THEN [is_valid |-> FALSE, error |-> Some("Range must contain at least 2 numbers")]
    ELSE IF max_val - min_val > MAX_RANGE_SPAN
    THEN [is_valid |-> FALSE, error |-> Some("Range too large (max 10,000 numbers)")]
    ELSE [is_valid |-> TRUE, error |-> None]

-----------------------------------------------------------------------------
(* JSON and the durable file *)

JNull == [t |-> "null"]
JInt(n) == [t |-> "int", v |-> n]
JStr(s) == [t |-> "str", v |-> s]
JObj(d) == [t |-> "obj", v |-> d]
JArr(a) == [t |-> "arr", v |-> a]

NoFile == [kind |-> "absent"]
Unreadable == [kind |-> "unreadable"]
Corrupt == [kind |-> "corrupt"]
JsonFile(doc) == [kind |-> "json", doc |-> doc]

to_dict_no_timestamp(s) ==
    [prediction |-> IF s.prediction = None THEN JNull ELSE JInt(s.prediction[1]),
     generated  |-> JInt(s.generated),
     game_mode  |-> JStr(s.game_mode),
     min_val    |-> JInt(s.min_val),
     max_val    |-> JInt(s.max_val),
     algorithm  |-> JStr(s.algorithm)]

to_dict(s) ==
    [prediction |-> IF s.prediction = None THEN JNull ELSE JInt(s.prediction[1]),
     generated  |-> JInt(s.generated),
     timestamp  |-> JStr(s.timestamp),
     game_mode  |-> JStr(s.game_mode),
     min_val    |-> JInt(s.min_val),
     max_val    |-> JInt(s.max_val),
     algorithm  |-> JStr(s.algorithm)]

Params == {"prediction", "generated", "timestamp", "game_mode", "min_val",
           "max_val", "algorithm"}
Required == {"prediction", "generated"}

\* cls(**data): [raised, value]; a TypeError for a non-mapping, an unknown
\* keyword or a missing positional argument
from_dict(data, now) ==
    IF data.t # "obj" THEN [raised |-> TRUE, value |-> None]
    ELSE LET d == data.v
             keys == DOMAIN d
         IN  IF ~(keys \subseteq Params) \/ ~(Required \subseteq keys)
             THEN [raised |-> TRUE, value |-> None]
             ELSE [raised |-> FALSE,
                   value |-> Some(GameSession(
                       IF d.prediction.t = "null" THEN None ELSE Some(d.prediction.v),
                       d.generated.v,
                       IF "timestamp" \in keys /\ d.timestamp.t = "str"
                           THEN d.timestamp.v ELSE "",
                       IF "game_mode" \in keys THEN d.game_mode.v ELSE "exact_match",
                       IF "min_val" \in keys THEN d.min_val.v ELSE DEFAULT_MIN_VALUE,
                       IF "max_val" \in keys THEN d.max_val.v ELSE DEFAULT_MAX_VALUE,
                       IF "algorithm" \in keys THEN d.algorithm.v ELSE "standard",
                       now))]

\* data = [s.to_dict() for s in sessions]; json.dump(data, f)
RECURSIVE DictList(_)
DictList(S) ==
    IF S = <<>> THEN <<>> ELSE <<JObj(to_dict(Head(S)))>> \o DictList(Tail(S))

json_dump(S) == JArr(DictList(S))

\* the try block of load_sessions: [raised, value]
RECURSIVE FromDictList(_, _)
FromDictList(a, now) ==
    IF a = <<>> THEN [raised |-> FALSE, value |-> <<>>]
    ELSE LET first == from_dict(Head(a), now)
             rest == FromDictList(Tail(a), now)
         IN  IF first.raised \/ rest.raised
             THEN [raised |-> TRUE, value |-> <<>>]
             ELSE [raised |-> FALSE, value |-> first.value \o rest.value]

\* the records of a that deserialize, the others skipped
RECURSIVE FromDictListPartial(_, _)
FromDictListPartial(a, now) ==
    IF a = <<>> THEN <<>>
    ELSE LET first == from_dict(Head(a), now) IN
         (IF first.raised THEN <<>> ELSE first.value) \o FromDictListPartial(Tail(a), now)

LoadBody(f, now) ==
    IF f.kind = "absent" THEN [raised |-> FALSE, value |-> <<>>]
    ELSE IF f.kind \in {"unreadable", "corrupt"} THEN [raised |-> TRUE, value |-> <<>>]
    ELSE IF f.doc.t = "arr" THEN FromDictList(f.doc.v, now)
    ELSE IF f.doc.t = "obj" /\ DOMAIN f.doc.v = {} THEN [raised |-> FALSE, value |-> <<>>]
    ELSE [raised |-> TRUE, value |-> <<>>]

load_sessions_partial(f, now) ==
    IF f.kind = "json" /\ f.doc.t = "arr"
    THEN [raised |-> FALSE, value |-> FromDictListPartial(f.doc.v, now)]
    ELSE [raised |-> FALSE, value |-> <<>>]

load_sessions(f, now) ==
    LET body == LoadBody(f, now) IN
    IF body.raised THEN [raised |-> FALSE, value |-> <<>>] ELSE body

IO == {"ok", "open_fails", "write_fails"}

\* the file opened for appending ("a") instead of writing ("w")
save_sessions_append(S, f, io) ==
    IF io = "open_fails" THEN [ret |-> FALSE, file |-> f]
    ELSE IF io = "write_fails" THEN [ret |-> FALSE, file |-> Corrupt]
    ELSE IF f.kind = "json" /\ f.doc.t = "arr"
         THEN [ret |-> TRUE, file |-> JsonFile(JArr(f.doc.v \o DictList(S)))]
         ELSE [ret |-> TRUE, file |-> JsonFile(json_dump(S))]

\* [ret, file]: open(filepath, "w") truncates, json.dump writes the document;
\* a failure before the open leaves the file, one after it leaves a fragment
save_sessions(S, f, io) ==
    IF io = "open_fails" THEN [ret |-> FALSE, file |-> f]
    ELSE IF io = "write_fails" THEN [ret |-> FALSE, file |-> Corrupt]
    ELSE [ret |-> TRUE, file |-> JsonFile(json_dump(S))]

-----------------------------------------------------------------------------
(* Caller steps (rng_mind_vs_machine.py) *)

Did(op) == history' = <<history[2], op>>

NotCalled == [called |-> FALSE]

Procs == {1, 2}

\* the data directory exists once a SessionManager was constructed
DataDir == <<"data">>

\* the rest of a fresh session state, and the state outside the process
AddedInit ==
    /\ show_prediction = TRUE
    /\ last_prediction = None
    /\ last_number = None
    /\ generation = NotCalled
    /\ dirs = {DataDir}
    /\ exported = NotCalled
    /\ mem = [p \in Procs |-> <<>>]
    /\ pc = [p \in Procs |-> "idle"]
    /\ overlapped = [p \in Procs |-> FALSE]
    /\ last_saver = 0
    /\ file_len = 0

\* save_session: construct the record, append it, save the whole sequence
save_session(prediction, generated, game_mode, min_val, max_val, algorithm, now, io, bound) ==
    /\ Len(sessions) < bound
    /\ LET session == GameSession(prediction, generated, "", game_mode,
                                  min_val, max_val, algorithm, now)
           saved == save_sessions(Append(sessions, session), file, io)
       IN  /\ sessions' = Append(sessions, session)
           /\ file' = saved.file
           /\ save_ret' = Some(saved.ret)
    /\ Did("save")
    /\ UNCHANGED <<added, confirm_delete, loaded, validation, cold, dist>>

\* the "Clear All Data" button, shown while there are sessions
ClearAllData ==
    /\ sessions # <<>>
    /\ ~confirm_delete
    /\ confirm_delete' = TRUE
    /\ UNCHANGED <<added, sessions, file, save_ret, loaded, history, validation, cold, dist>>

\* the "Yes, Delete" button of the confirmation
YesDelete(io) ==
    /\ sessions # <<>>
    /\ confirm_delete
    /\ sessions' = <<>>
    /\ LET saved == save_sessions(<<>>, file, io) IN
       /\ file' = saved.file
       /\ save_ret' = Some(saved.ret)
    /\ confirm_delete' = FALSE
    /\ Did("save")
    /\ UNCHANGED <<added, loaded, validation, cold, dist>>

\* the "Cancel" button of the confirmation
Cancel ==
    /\ sessions # <<>>
    /\ confirm_delete
    /\ confirm_delete' = FALSE
    /\ UNCHANGED <<added, sessions, file, save_ret, loaded, history, validation, cold, dist>>

\* initialize_session_state on a fresh session state: the sequence is loaded
InitialState(f, now) ==
    /\ file = f
    /\ loaded = load_sessions(f, now)
    /\ sessions = loaded.value
    /\ confirm_delete = FALSE
    /\ save_ret = None
    /\ history = <<"start", "load">>
    /\ validation = NotCalled
    /\ cold = NotCalled
    /\ dist = NotCalled
    /\ AddedInit

-----------------------------------------------------------------------------
(* Spec: a caller that appends records with or without a prediction and    *)
(* clears them, under the sidebar's default settings                       *)

\* <<prediction, generated>>: two hits (one on 0), a miss and a trial without prediction
Trials == {<<Some(5), 5>>, <<Some(3), 7>>, <<Some(0), 0>>, <<None, 9>>}

Init == \E f \in {NoFile, Corrupt} : InitialState(f, "t0")

Generate ==
    \E trial \in Trials, io \in IO :
        save_session(trial[1], trial[2], "exact_match", DEFAULT_MIN_VALUE,
                     DEFAULT_MAX_VALUE, "standard", "t1", io, MaxSessions)

ConfirmDelete == \E io \in IO : YesDelete(io)

Next == Generate \/ ClearAllData \/ ConfirmDelete \/ Cancel

Spec == Init /\ [][Next]_vars

-----------------------------------------------------------------------------
(* Claims checked under Spec *)

\* the scenario of spec section 8: (5, 5), (3, 7), (no prediction, 9)
IsScenario(S) ==
    /\ Len(S) = 3
    /\ S[1].prediction = Some(5) /\ S[1].generated = 5
    /\ S[2].prediction = Some(3) /\ S[2].generated = 7
    /\ S[3].prediction = None /\ S[3].generated = 9

\* C1 as stated: on the scenario sequence average_distance() is 4.0, only the
\* second record contributing
C1_AverageDistanceIsFour ==
    IsScenario(sessions) =>
        /\ average_distance(sessions) # None
        /\ RatEq(average_distance(sessions), <<4, 1>>)

\* C1 amended: on the scenario sequence average_distance() is 2.0, the mean of
\* the two defined distances |5-5| = 0 and |3-7| = 4; only the record without a
\* prediction is left out
C1_AverageDistanceIsTwo ==
    IsScenario(sessions) =>
        /\ average_distance(sessions) # None
        /\ RatEq(average_distance(sessions), <<2, 1>>)
        /\ MapDistance(sessions, 1) = <<0, 4>>

C1_ScenarioReached == IsScenario(sessions)

\* C8: total_hits <= total_predictions <= total_attempts = len(S) after any
\* appends and clears
C8_CountsOrdered ==
    /\ total_hits(sessions) <= total_predictions(sessions)
    /\ total_predictions(sessions) <= total_attempts(sessions)
    /\ total_attempts(sessions) = Len(sessions)

\* after at least two saves, a sequence on which the three counts all differ
C8_CountsDiffer ==
    /\ history = <<"save", "save">>
    /\ 0 < total_hits(sessions)
    /\ total_hits(sessions) < total_predictions(sessions)
    /\ total_predictions(sessions) < total_attempts(sessions)
    /\ \E i \in DOMAIN sessions : sessions[i].prediction = Some(0)

\* C9: current_streak <= longest_streak after any appends and clears
C9_CurrentWithinLongest == current_streak(sessions) <= longest_streak(sessions)

\* a run of two hits at the end, after an earlier miss
C9_StreakAtEnd ==
    /\ Len(sessions) = 3
    /\ ~is_hit(sessions[1])
    /\ current_streak(sessions) = 2
    /\ longest_streak(sessions) = 2

-----------------------------------------------------------------------------
(* SpecRange: validate_range applied to pairs around its thresholds *)

RangeInputs ==
    ((0 - RangeSlack) .. RangeSlack) \cup
    ((MAX_RANGE_SPAN - RangeSlack) .. (MAX_RANGE_SPAN + RangeSlack))

ValidateRange ==
    \E min_val \in RangeInputs, max_val \in RangeInputs :
        /\ validation' = [called |-> TRUE, min_val |-> min_val, max_val |-> max_val,
                          result |-> validate_range(min_val, max_val)]
        /\ UNCHANGED <<added, sessions, file, confirm_delete, save_ret, loaded, history,
                       cold, dist>>

InitRange == InitialState(NoFile, "t0")

NextRange == ValidateRange

SpecRange == InitRange /\ [][NextRange]_vars

\* C2: validate_range fails exactly when min_val > max_val, or the inclusive
\* span holds fewer than 2 values, or it holds more than 10,000 values, and a
\* success carries no error message
C2_FailsExactlyOutsideSpan ==
    validation.called =>
        LET values == validation.max_val - validation.min_val + 1 IN
        /\ ~validation.result.is_valid <=>
               \/ validation.min_val > validation.max_val
               \/ values < 2
               \/ values > MAX_RANGE_SPAN
        /\ validation.result.is_valid <=> validation.result.error = None

-----------------------------------------------------------------------------
(* SpecDist: get_distribution_data over sequences of generated values *)

\* Analytics(st.session_state.sessions).get_distribution_data(bins)
GetDistributionData(bins) ==
    /\ dist' = [called |-> TRUE, sessions |-> sessions, bins |-> bins,
                result |-> get_distribution_data(sessions, bins)]
    /\ UNCHANGED <<added, sessions, file, confirm_delete, save_ret, loaded, history,
                   validation, cold>>

InitDist == InitialState(NoFile, "t0")

GenerateDist ==
    \E generated \in 0 .. MaxDistValue :
        save_session(None, generated, "exact_match", DEFAULT_MIN_VALUE,
                     DEFAULT_MAX_VALUE, "standard", "t1", "ok", MaxDistSessions)

Distribution == \E bins \in 1 .. MaxBins : GetDistributionData(bins)

NextDist == GenerateDist \/ Distribution

SpecDist == InitDist /\ [][NextDist]_vars

DistValues == GeneratedNumbers(dist.sessions)
DistMin == MinOf(Range(DistValues))
DistMax == MaxOf(Range(DistValues))
DistWidth(k) == dist.result.bins[k][2] - dist.result.bins[k][1] + 1

\* C4: for a non-empty sequence and bins >= 1 the bucket counts sum to len(S),
\* every generated value lying in exactly one bucket
C4_CountsSumToLength ==
    (dist.called /\ dist.sessions # <<>>) =>
        /\ Len(dist.result.counts) = dist.bins
        /\ SumSeq(dist.result.counts) = Len(dist.sessions)
        /\ \A j \in DOMAIN DistValues :
               Cardinality({k \in 1 .. dist.bins :
                   /\ dist.result.bins[k][1] <= DistValues[j]
                   /\ DistValues[j] <= dist.result.bins[k][2]}) = 1

\* more buckets asked for than there are integers in the observed range
C4_MoreBinsThanValues ==
    /\ dist.called
    /\ Len(dist.sessions) >= 2
    /\ DistMax > DistMin
    /\ dist.bins > DistMax - DistMin + 1
    /\ SumSeq(dist.result.counts) = Len(dist.sessions)

\* C5 as stated: every bucket but the last has width max(1, ceil(range / bins)),
\* range the number of integers in [min_observed, max_observed], and the last
\* bucket ends at max_observed
C5_WidthIsCeiling ==
    (dist.called /\ dist.sessions # <<>>) =>
        /\ \A k \in 1 .. (dist.bins - 1) :
               DistWidth(k) = Max2(1, Ceil(DistMax - DistMin + 1, dist.bins))
        /\ dist.result.bins[dist.bins][2] = DistMax

\* C5 amended: every bucket but the last has width
\* max(1, floor((max_observed - min_observed + 1) / bins)), and the last bucket
\* ends at max_observed
C5_WidthIsFloor ==
    (dist.called /\ dist.sessions # <<>>) =>
        /\ \A k \in 1 .. (dist.bins - 1) :
               DistWidth(k) = Max2(1, (DistMax - DistMin + 1) \div dist.bins)
        /\ dist.result.bins[dist.bins][2] = DistMax

\* five observed integers in two buckets: widths 2 and 3
C5_RemainderInLastBucket ==
    /\ dist.called
    /\ dist.bins = 2
    /\ dist.sessions # <<>>
    /\ DistMax - DistMin + 1 = 5
    /\ DistWidth(1) = 2
    /\ DistWidth(2) = 3

-----------------------------------------------------------------------------
(* SpecCold: cold_numbers over sequences of generated values *)

ColdValues == ColdBase .. (ColdBase + MaxColdValue)

\* Analytics(sessions).cold_numbers(top_n, min_val, max_val); iterating the
\* set never_generated yields its elements in an order the language leaves open
ColdNumbers(top_n, min_val, max_val) ==
    /\ min_val <= max_val
    /\ \E listed \in Orders(never_generated(sessions, min_val, max_val)) :
           cold' = [called |-> TRUE, sessions |-> sessions, top_n |-> top_n,
                    min_val |-> min_val, max_val |-> max_val,
                    result |-> cold_numbers(sessions, top_n, min_val, max_val, listed)]
    /\ UNCHANGED <<added, sessions, file, confirm_delete, save_ret, loaded, history,
                   validation, dist>>

InitCold == InitialState(NoFile, "t0")

GenerateCold ==
    \E generated \in ColdValues :
        save_session(None, generated, "exact_match", DEFAULT_MIN_VALUE,
                     DEFAULT_MAX_VALUE, "standard", "t1", "ok", MaxColdSessions)

Cold ==
    \E top_n \in 0 .. MaxTopN, min_val \in ColdValues, max_val \in ColdValues :
        ColdNumbers(top_n, min_val, max_val)

NextCold == GenerateCold \/ Cold

SpecCold == InitCold /\ [][NextCold]_vars

\* C3: in the list cold_numbers returns, every never-generated value of
\* [min_val, max_val] comes before any observed value, and the never-generated
\* values are in ascending order
C3_NeverGeneratedFirstAscending ==
    cold.called =>
        LET never == never_generated(cold.sessions, cold.min_val, cold.max_val)
            r == cold.result
        IN  /\ \A i, j \in DOMAIN r : (i < j /\ r[j] \in never) => r[i] \in never
            /\ \A i, j \in DOMAIN r :
                   (i < j /\ r[i] \in never /\ r[j] \in never) => r[i] < r[j]

-----------------------------------------------------------------------------
(* SpecStore: the session store used directly, over files of any content *)

\* GameSession(...) and sessions.append(session), the first half of save_session
AppendSession(prediction, generated, game_mode, min_val, max_val, algorithm, now) ==
    /\ Len(sessions) < MaxStoreSessions
    /\ sessions' = Append(sessions, GameSession(prediction, generated, "", game_mode,
                                                min_val, max_val, algorithm, now))
    /\ Did("append")
    /\ UNCHANGED <<added, file, confirm_delete, save_ret, loaded, validation, cold, dist>>

\* SessionManager().save_sessions(sessions)
SaveSessions(io) ==
    /\ LET saved == save_sessions(sessions, file, io) IN
       /\ file' = saved.file
       /\ save_ret' = Some(saved.ret)
    /\ Did("save")
    /\ UNCHANGED <<added, sessions, confirm_delete, loaded, validation, cold, dist>>

\* SessionManager().load_sessions()
LoadSessions(now) ==
    /\ loaded' = load_sessions(file, now)
    /\ Did("load")
    /\ UNCHANGED <<added, sessions, file, confirm_delete, save_ret, validation, cold, dist>>

\* records as they may stand in a file written earlier
StoredGood ==
    JObj(to_dict(GameSession(Some(4), 4, "t0", "exact_match", 0, 99, "standard", "t0")))
StoredNoGenerated == JObj([prediction |-> JNull, timestamp |-> JStr("t0")])
StoredNoPrediction == JObj([generated |-> JInt(4), timestamp |-> JStr("t0")])
StoredOnlyRequired == JObj([prediction |-> JNull, generated |-> JInt(4)])
StoredUnknownKey ==
    JObj([prediction |-> JNull, generated |-> JInt(4), version |-> JInt(1)])

PriorFiles ==
    <<NoFile, Unreadable, Corrupt,
     JsonFile(JNull),
     JsonFile(JArr(<<>>)),
     JsonFile(JArr(<<StoredGood>>)),
     JsonFile(JArr(<<StoredGood, StoredNoGenerated>>)),
     JsonFile(JArr(<<StoredNoPrediction, StoredGood>>)),
     JsonFile(JArr(<<StoredGood, JInt(4)>>)),
     JsonFile(JArr(<<StoredGood, StoredUnknownKey>>)),
     JsonFile(JArr(<<StoredOnlyRequired>>))>>

\* <<prediction, generated, game_mode, min_val, max_val, algorithm>>
StoreTrials ==
    {<<None, 7, "exact_match", 0, 99, "standard">>,
     <<Some(3), 3, "high_low", 1, 10, "secrets">>,
     <<Some(0), 9, "range_prediction", 0, 9, "time_based">>}

InitStore ==
    /\ \E i \in DOMAIN PriorFiles : file = PriorFiles[i]
    /\ sessions = <<>>
    /\ loaded = [raised |-> FALSE, value |-> <<>>]
    /\ confirm_delete = FALSE
    /\ save_ret = None
    /\ history = <<"start", "start">>
    /\ validation = NotCalled
    /\ cold = NotCalled
    /\ dist = NotCalled
    /\ AddedInit

AppendStore ==
    \E trial \in StoreTrials, now \in {"t1", "t2"} :
        AppendSession(trial[1], trial[2], trial[3], trial[4], trial[5], trial[6], now)

SaveStore == \E io \in IO : SaveSessions(io)

LoadStore == \E now \in {"t1", "t2"} : LoadSessions(now)

NextStore == AppendStore \/ SaveStore \/ LoadStore

SpecStore == InitStore /\ [][NextStore]_vars

\* C6: a save that returned true followed at once by a load yields the saved
\* sequence, record for record and field for field, whatever the file held before
C6_SaveThenLoad ==
    (history = <<"save", "load">> /\ save_ret = Some(TRUE)) =>
        /\ ~loaded.raised
        /\ Len(loaded.value) = Len(sessions)
        /\ \A i \in DOMAIN sessions :
               /\ loaded.value[i].prediction = sessions[i].prediction
               /\ loaded.value[i].generated = sessions[i].generated
               /\ loaded.value[i].timestamp = sessions[i].timestamp
               /\ loaded.value[i].game_mode = sessions[i].game_mode
               /\ loaded.value[i].min_val = sessions[i].min_val
               /\ loaded.value[i].max_val = sessions[i].max_val
               /\ loaded.value[i].algorithm = sessions[i].algorithm
        /\ file = JsonFile(json_dump(sessions))

\* two different records, one with a null prediction, saved and loaded back
C6_TwoRecordsRoundTrip ==
    /\ history = <<"save", "load">>
    /\ save_ret = Some(TRUE)
    /\ Len(sessions) = 2
    /\ sessions[1].prediction = None
    /\ sessions[2].prediction # None
    /\ loaded.value = sessions

MissingRequired(e) == e.t # "obj" \/ ~(Required \subseteq DOMAIN e.v)

\* C7: load never raises; it returns the empty sequence when the file is
\* absent, unreadable or unparsable, or holds a record missing a required
\* field, never the records that did deserialize
C7_LoadFailsWhole ==
    history[2] = "load" =>
        /\ ~loaded.raised
        /\ file.kind \in {"absent", "unreadable", "corrupt"} => loaded.value = <<>>
        /\ (file.kind = "json" /\ file.doc.t # "arr") => loaded.value = <<>>
        /\ (file.kind = "json" /\ file.doc.t = "arr"
                /\ \E i \in DOMAIN file.doc.v : MissingRequired(file.doc.v[i]))
               => loaded.value = <<>>

\* a file whose first record is well formed and whose second lacks "generated"
C7_PartlyMalformedFile ==
    /\ history[2] = "load"
    /\ file.kind = "json"
    /\ file.doc.t = "arr"
    /\ Len(file.doc.v) = 2
    /\ ~MissingRequired(file.doc.v[1])
    /\ MissingRequired(file.doc.v[2])
    /\ loaded = [raised |-> FALSE, value |-> <<>>]

-----------------------------------------------------------------------------
(* SpecExport: export_to_csv at paths whose directories exist or not *)

\* sessions[0].to_dict().keys(), in the order to_dict lists them
FieldNames ==
    <<"prediction", "generated", "timestamp", "game_mode", "min_val", "max_val",
      "algorithm">>

\* a cell as csv.DictWriter writes it: None as the empty field, the rest by str()
CsvCell(v) ==
    IF v.t = "null" THEN "" ELSE IF v.t = "int" THEN ToString(v.v) ELSE v.v

\* writer.writerow(session.to_dict())
CsvRow(s) == [i \in DOMAIN FieldNames |-> CsvCell(to_dict(s)[FieldNames[i]])]

\* os.path.dirname of a path given by its components
Parent(path) == SubSeq(path, 1, Len(path) - 1)

\* whether open(path, "w") finds the directory to create the file in
CanCreate(path, D) == Parent(path) = <<>> \/ Parent(path) \in D

\* os.makedirs(path, exist_ok=True)
makedirs(path, D) == D \cup {SubSeq(path, 1, n) : n \in 1 .. Len(path)}

\* [ret, written, header, rows]: open raises when the directory is missing,
\* an empty list leaves the created file empty
export_to_csv(S, output_path, D) ==
    IF ~CanCreate(output_path, D)
    THEN [ret |-> FALSE, written |-> FALSE, header |-> <<>>, rows |-> <<>>]
    ELSE IF S = <<>>
    THEN [ret |-> TRUE, written |-> TRUE, header |-> <<>>, rows |-> <<>>]
    ELSE [ret |-> TRUE, written |-> TRUE, header |-> FieldNames,
          rows |-> [i \in DOMAIN S |-> CsvRow(S[i])]]

\* SessionManager().export_to_csv(sessions, output_path)
ExportToCsv(output_path) ==
    /\ exported' = [called |-> TRUE, path |-> output_path, sessions |-> sessions,
                    result |-> export_to_csv(sessions, output_path, dirs)]
    /\ UNCHANGED <<sessions, file, confirm_delete, save_ret, loaded, history,
                   validation, cold, dist, uiVars, dirs, procVars>>

\* the "Export to CSV" button, shown while there are sessions
ExportButton(now) ==
    /\ sessions # <<>>
    /\ LET output_path == <<"data", "exports", now>>
           made == makedirs(<<"data", "exports">>, dirs)
       IN  /\ dirs' = made
           /\ exported' = [called |-> TRUE, path |-> output_path, sessions |-> sessions,
                           result |-> export_to_csv(sessions, output_path, made)]
    /\ UNCHANGED <<sessions, file, confirm_delete, save_ret, loaded, history,
                   validation, cold, dist, uiVars, procVars>>

ExportPaths ==
    {<<"sessions.csv">>, <<"data", "sessions.csv">>,
     <<"data", "exports", "sessions.csv">>, <<"out", "new", "sessions.csv">>}

InitExport == InitialState(NoFile, "t0")

AppendExport ==
    \E trial \in StoreTrials :
        AppendSession(trial[1], trial[2], trial[3], trial[4], trial[5], trial[6], "t1")

ExportAnywhere == \E output_path \in ExportPaths : ExportToCsv(output_path)

ExportFromButton == \E now \in {"sessions_t1.csv", "sessions_t2.csv"} : ExportButton(now)

NextExport == AppendExport \/ ExportAnywhere \/ ExportFromButton

SpecExport == InitExport /\ [][NextExport]_vars

\* C11: export_csv creates the missing parent directories of the path it is
\* given and returns true; a non-empty sequence gives a header row of field
\* names and one data row per record in order, an empty one a file without
\* data rows
C11_ExportCreatesDirectories ==
    exported.called =>
        /\ exported.result.ret
        /\ exported.result.written
        /\ CanCreate(exported.path, dirs)
        /\ Len(exported.result.rows) = Len(exported.sessions)
        /\ exported.sessions # <<>> =>
               /\ exported.result.header = FieldNames
               /\ \A i \in DOMAIN exported.sessions :
                      /\ exported.result.rows[i][2] = ToString(exported.sessions[i].generated)
                      /\ exported.result.rows[i][3] = exported.sessions[i].timestamp

-----------------------------------------------------------------------------
(* SpecApp: the application, one action per script run of main() *)

\* RNGEngine.generate: the values it may return (none when it raises ValueError)
generate_no_offset(algorithm, min_val, max_val) ==
    IF min_val > max_val THEN {}
    ELSE IF algorithm = "secrets" THEN 0 .. (max_val - min_val)
    ELSE min_val .. max_val

generate(algorithm, min_val, max_val) ==
    IF min_val > max_val THEN {}
    ELSE IF algorithm = "secrets" THEN {k + min_val : k \in 0 .. (max_val - min_val)}
    ELSE min_val .. max_val

\* render_prediction_input: the values the widget may return
render_prediction_input(min_val, max_val, game_mode) ==
    IF game_mode = "high_low" THEN {max_val, min_val} ELSE min_val .. max_val

AfterPredictionInputSkipped(show, last, prediction) == last

\* the first column of main(): the widget is read only while it is shown
AfterPredictionInput(show, last, prediction) ==
    IF show THEN Some(prediction) ELSE last

InsertRecordFirst(S, session) == <<session>> \o S

\* st.session_state.sessions.append(session)
AppendRecord(S, session) == Append(S, session)

\* render_sidebar_settings: what the sidebar may hold
AppSettings ==
    {[algorithm |-> "standard", game_mode |-> "exact_match", min_val |-> 0, max_val |-> 1],
     [algorithm |-> "secrets", game_mode |-> "high_low", min_val |-> 1, max_val |-> 2],
     [algorithm |-> "secrets", game_mode |-> "high_low", min_val |-> 2, max_val |-> 0]}

PredictionInputs(settings) ==
    render_prediction_input(settings.min_val, settings.max_val, settings.game_mode)

\* main() down to the range gate
Validated(settings) ==
    validation' = [called |-> TRUE, min_val |-> settings.min_val,
                   max_val |-> settings.max_val,
                   result |-> validate_range(settings.min_val, settings.max_val)]

\* a run that stops at the range gate
InvalidRange(settings) ==
    /\ Validated(settings)
    /\ ~validate_range(settings.min_val, settings.max_val).is_valid
    /\ generation' = NotCalled
    /\ UNCHANGED <<sessions, file, confirm_delete, save_ret, loaded, history, cold, dist,
                   show_prediction, last_prediction, last_number, csvVars, procVars>>

\* a run past the gate in which no button is pressed
Rerun(settings, prediction) ==
    /\ Validated(settings)
    /\ validate_range(settings.min_val, settings.max_val).is_valid
    /\ last_prediction' = AfterPredictionInput(show_prediction, last_prediction, prediction)
    /\ generation' = NotCalled
    /\ UNCHANGED <<sessions, file, confirm_delete, save_ret, loaded, history, cold, dist,
                   show_prediction, last_number, csvVars, procVars>>

\* the "Generate Number" button: generate, save_session, hide the input, rerun
GenerateNumber(settings, prediction, generated, now, io) ==
    /\ Len(sessions) < MaxAppSessions
    /\ Validated(settings)
    /\ validate_range(settings.min_val, settings.max_val).is_valid
    /\ generated \in generate(settings.algorithm, settings.min_val, settings.max_val)
    /\ generation' = [called |-> TRUE, algorithm |-> settings.algorithm,
                      min_val |-> settings.min_val, max_val |-> settings.max_val,
                      result |-> generated]
    /\ last_number' = Some(generated)
    /\ LET predicted == AfterPredictionInput(show_prediction, last_prediction, prediction)
           session == GameSession(predicted, generated, "", settings.game_mode,
                                  settings.min_val, settings.max_val,
                                  settings.algorithm, now)
           saved == save_sessions(AppendRecord(sessions, session), file, io)
       IN  /\ last_prediction' = predicted
           /\ sessions' = AppendRecord(sessions, session)
           /\ file' = saved.file
           /\ save_ret' = Some(saved.ret)
    /\ show_prediction' = FALSE
    /\ Did("save")
    /\ UNCHANGED <<confirm_delete, loaded, cold, dist, csvVars, procVars>>

\* the "New Round" button, and the rerun it asks for, which reads the input again
NewRound(settings, prediction) ==
    /\ Validated(settings)
    /\ validate_range(settings.min_val, settings.max_val).is_valid
    /\ last_number' = None
    /\ show_prediction' = TRUE
    /\ last_prediction' = AfterPredictionInput(TRUE, None, prediction)
    /\ generation' = NotCalled
    /\ UNCHANGED <<sessions, file, confirm_delete, save_ret, loaded, history, cold, dist,
                   csvVars, procVars>>

\* the "Clear All Data" button in a run of the application
AppClearAllData(settings, prediction) ==
    /\ Validated(settings)
    /\ validate_range(settings.min_val, settings.max_val).is_valid
    /\ sessions # <<>>
    /\ ~confirm_delete
    /\ confirm_delete' = TRUE
    /\ last_prediction' = AfterPredictionInput(show_prediction, last_prediction, prediction)
    /\ generation' = NotCalled
    /\ UNCHANGED <<sessions, file, save_ret, loaded, history, cold, dist,
                   show_prediction, last_number, csvVars, procVars>>

\* the "Yes, Delete" button in a run of the application
AppYesDelete(settings, prediction, io) ==
    /\ Validated(settings)
    /\ validate_range(settings.min_val, settings.max_val).is_valid
    /\ sessions # <<>>
    /\ confirm_delete
    /\ sessions' = <<>>
    /\ LET saved == save_sessions(<<>>, file, io) IN
       /\ file' = saved.file
       /\ save_ret' = Some(saved.ret)
    /\ confirm_delete' = FALSE
    /\ last_prediction' = AfterPredictionInput(show_prediction, last_prediction, prediction)
    /\ generation' = NotCalled
    /\ Did("save")
    /\ UNCHANGED <<loaded, cold, dist, show_prediction, last_number, csvVars, procVars>>

\* the "Cancel" button in a run of the application
AppCancel(settings, prediction) ==
    /\ Validated(settings)
    /\ validate_range(settings.min_val, settings.max_val).is_valid
    /\ sessions # <<>>
    /\ confirm_delete
    /\ confirm_delete' = FALSE
    /\ last_prediction' = AfterPredictionInput(show_prediction, last_prediction, prediction)
    /\ generation' = NotCalled
    /\ UNCHANGED <<sessions, file, save_ret, loaded, history, cold, dist,
                   show_prediction, last_number, csvVars, procVars>>

\* the failures of a save that the application's runs are checked against
AppIO == {"ok", "write_fails"}

InitApp ==
    \E i \in 1 .. 2 : InitialState(<<NoFile, JsonFile(JArr(<<StoredGood>>))>>[i], "t0")

NextApp ==
    \E settings \in AppSettings :
        \/ InvalidRange(settings)
        \/ \E prediction \in PredictionInputs(settings) :
               \/ Rerun(settings, prediction)
               \/ \E generated \in 0 .. 2, io \in AppIO :
                      GenerateNumber(settings, prediction, generated, "t1", io)
               \/ NewRound(settings, prediction)
               \/ AppClearAllData(settings, prediction)
               \/ \E io \in AppIO : AppYesDelete(settings, prediction, io)
               \/ AppCancel(settings, prediction)

SpecApp == InitApp /\ [][NextApp]_vars

\* C12: whenever the generate flow has run, validate_range had succeeded in the
\* same run for the very range handed to generate, and the record it appended
\* carries that range and a generated number inside it
C12_GeneratedWithinValidatedRange ==
    generation.called =>
        /\ validation.called
        /\ validation.result.is_valid
        /\ validation.min_val = generation.min_val
        /\ validation.max_val = generation.max_val
        /\ sessions # <<>>
        /\ LET r == sessions[Len(sessions)] IN
           /\ r.generated = generation.result
           /\ r.min_val = generation.min_val
           /\ r.max_val = generation.max_val
           /\ r.min_val <= r.generated
           /\ r.generated <= r.max_val

\* a second record, generated by the "secrets" algorithm under another range
C12_GeneratedInSecondRange ==
    /\ generation.called
    /\ generation.algorithm = "secrets"
    /\ Len(sessions) = 2
    /\ sessions[1].min_val # sessions[2].min_val

\* C13: every step leaves the session sequence as it was, extends it by one
\* record at the end, or replaces it by the empty sequence
C13_AppendOnly ==
    [][\/ sessions' = sessions
       \/ /\ Len(sessions') = Len(sessions) + 1
          /\ SubSeq(sessions', 1, Len(sessions)) = sessions
       \/ sessions' = <<>>]_vars

\* a record appended after a confirmed clear that followed earlier records
C13_AppendedAfterClear ==
    /\ Len(sessions) = 1
    /\ history = <<"save", "save">>
    /\ generation.called

\* C16: after a save that returned true the file holds the in-memory sequence
C16_FileEqualsMemory ==
    save_ret = Some(TRUE) => file = JsonFile(json_dump(sessions))

\* a confirmed clear after a generated number: memory and file both empty
C16_BothEmptyAfterClear ==
    /\ sessions = <<>>
    /\ save_ret = Some(TRUE)
    /\ file = JsonFile(JArr(<<>>))
    /\ last_number # None

\* C17: a step that appends a record finds last_prediction set and records it,
\* and with the input hidden it records the prediction of the previous record
C17_PredictionRecorded ==
    [][Len(sessions') = Len(sessions) + 1 =>
          /\ last_prediction' # None
          /\ sessions'[Len(sessions')].prediction = last_prediction'
          /\ (~show_prediction /\ sessions # <<>> =>
                 sessions'[Len(sessions')].prediction
                     = sessions[Len(sessions)].prediction)]_vars

\* Generate pressed twice without New Round, the range changed in between:
\* the second record repeats a prediction that lies outside its own range
C17_SamePredictionTwice ==
    /\ ~show_prediction
    /\ Len(sessions) = 2
    /\ sessions[2].prediction # None
    /\ sessions[2].prediction = sessions[1].prediction
    /\ sessions[2].prediction[1] < sessions[2].min_val

\* C15: on the empty session sequence hit_rate is 0.0, average_distance is None,
\* both streaks are 0 and get_distribution_data returns no buckets and no
\* counts, whatever bins is
C15_EmptySequenceResults ==
    /\ sessions = <<>> =>
           /\ hit_rate(sessions) = RatDiv(0, 1)
           /\ average_distance(sessions) = None
           /\ current_streak(sessions) = 0
           /\ longest_streak(sessions) = 0
           /\ \A bins \in (0 - MaxBins) .. MaxBins :
                  get_distribution_data(sessions, bins) = [bins |-> <<>>, counts |-> <<>>]
    /\ (dist.called /\ dist.sessions = <<>>) =>
           dist.result = [bins |-> <<>>, counts |-> <<>>]

\* the distribution asked of the empty sequence with the largest bins
C15_DistributionOfEmpty ==
    /\ sessions = <<>>
    /\ dist.called
    /\ dist.sessions = <<>>
    /\ dist.bins = MaxBins
    /\ dist.result.counts = <<>>

-----------------------------------------------------------------------------
(* SpecTwo: two processes of the application on one sessions file.  A save *)
(* is two steps, open(filepath, "w") and the write of json.dump at close,   *)
(* and the processes' steps interleave; no locking is done                  *)

\* length of the document json.dump writes, in records: the records written
\* here are of equal length
DocLen(S) == Len(S)

\* length of a file as first loaded
FileLen(f) == IF f.kind = "json" /\ f.doc.t = "arr" THEN Len(f.doc.v) ELSE 0

\* save_session up to open(filepath, "w"): the record is appended to the
\* process's list and the file is truncated
ProcSaveOpen(p, generated, now) ==
    /\ pc[p] = "idle"
    /\ Len(mem[p]) < MaxProcSessions
    /\ mem' = [mem EXCEPT ![p] =
                  Append(@, GameSession(None, generated, "", "exact_match",
                                        DEFAULT_MIN_VALUE, DEFAULT_MAX_VALUE,
                                        "standard", now))]
    /\ file' = Corrupt
    /\ file_len' = 0
    /\ pc' = [pc EXCEPT ![p] = "opened"]
    /\ overlapped' = [q \in Procs |->
                         IF \E r \in Procs \ {p} : pc[r] = "opened"
                         THEN TRUE
                         ELSE IF q = p THEN FALSE ELSE overlapped[q]]
    /\ UNCHANGED <<sessions, confirm_delete, save_ret, loaded, history, validation,
                   cold, dist, uiVars, csvVars, last_saver>>

\* json.dump and the close of the file: the document goes to the start of the
\* file, over whatever another process has written there since the open
ProcSaveWrite(p) ==
    /\ pc[p] = "opened"
    /\ file' = IF file_len <= DocLen(mem[p]) THEN JsonFile(json_dump(mem[p])) ELSE Corrupt
    /\ file_len' = Max2(file_len, DocLen(mem[p]))
    /\ pc' = [pc EXCEPT ![p] = "idle"]
    /\ last_saver' = p
    /\ UNCHANGED <<sessions, confirm_delete, save_ret, loaded, history, validation,
                   cold, dist, uiVars, csvVars, mem, overlapped>>

\* both processes have loaded the same file
InitTwo ==
    \E i \in 1 .. 2 :
        LET f == <<NoFile, JsonFile(JArr(<<StoredGood>>))>>[i] IN
        /\ file = f
        /\ loaded = load_sessions(f, "t0")
        /\ sessions = loaded.value
        /\ confirm_delete = FALSE
        /\ save_ret = None
        /\ history = <<"start", "load">>
        /\ validation = NotCalled
        /\ cold = NotCalled
        /\ dist = NotCalled
        /\ show_prediction = TRUE
        /\ last_prediction = None
        /\ last_number = None
        /\ generation = NotCalled
        /\ dirs = {DataDir}
        /\ exported = NotCalled
        /\ mem = [p \in Procs |-> loaded.value]
        /\ pc = [p \in Procs |-> "idle"]
        /\ overlapped = [p \in Procs |-> FALSE]
        /\ last_saver = 0
        /\ file_len = FileLen(f)

NextTwo ==
    \E p \in Procs :
        \/ \E generated \in 0 .. 1 : ProcSaveOpen(p, generated, "t1")
        \/ ProcSaveWrite(p)

SpecTwo == InitTwo /\ [][NextTwo]_vars

\* C14 as stated: once the saves are over, the file holds the full sequence of
\* the process that saved last, whatever the interleaving
C14_LastWriterWins ==
    (last_saver \in Procs /\ \A p \in Procs : pc[p] = "idle") =>
        file = JsonFile(json_dump(mem[last_saver]))

====
